---------------------------- MODULE Spec2Model ----------------------------
(***************************************************************************)
(* A model of the apitest runner (framework.go): TestRunner.Run walks the  *)
(* configured scenarios and cases, runTestCase gates a case on its         *)
(* dependency, builds and sends the request with retries, reads and        *)
(* decodes the response, validates the expectation, captures variables     *)
(* and returns the TestResult that Run appends to r.results.               *)
(*                                                                         *)
(* Go strings that the code takes apart (paths, placeholders, map keys)    *)
(* are sequences of one-character strings; names that are only compared    *)
(* (case names, scenario names, operators, error kinds) are plain strings. *)
(* A Go value of type any is a record [k |-> kind, v |-> payload].         *)
(***************************************************************************)
EXTENDS Integers, Sequences, FiniteSets, TLC

(***************************************************************************)
(* Bounds of the model.                                                    *)
(***************************************************************************)
\* cases the scenario loops hand to runTestCase in one Run
MaxCases == 2
\* largest retry.times a configured case declares
MaxTimes == 2
\* setup (and teardown) actions of the suite
MaxActions == 2
\* bits of the model's int64 and uint64, which stand for the 64 of Go
IntBits == 8

\* the largest int64
MaxInt64 == 2 ^ (IntBits - 1) - 1

(***************************************************************************)
(* strings                                                                 *)
(***************************************************************************)
Digits == <<"0", "1", "2", "3", "4", "5", "6", "7", "8", "9">>

IsDigit(c) == \E i \in 1..Len(Digits) : Digits[i] = c

DigitVal(c) == (CHOOSE i \in 1..Len(Digits) : Digits[i] = c) - 1

\* s[from:to] of Go (0-based, to exclusive), for 0 <= from <= to <= len(s)
Slice(s, from, to) == SubSeq(s, from + 1, to)

\* strings.HasPrefix
HasPrefix(s, p) == Len(p) <= Len(s) /\ SubSeq(s, 1, Len(p)) = p

\* strings.HasSuffix
HasSuffix(s, p) ==
    Len(p) <= Len(s) /\ SubSeq(s, Len(s) - Len(p) + 1, Len(s)) = p

\* strings.Index: the 0-based position of the first sub in s, or -1
StrIndex(s, sub) ==
    LET at(i) == i + Len(sub) <= Len(s) /\ Slice(s, i, i + Len(sub)) = sub
        hits == {i \in 0..Len(s) : at(i)}
    IN  IF hits = {} THEN -1
        ELSE CHOOSE i \in hits : \A j \in hits : i <= j

\* strings.Contains
StrContains(s, sub) == StrIndex(s, sub) >= 0

\* strings.Replace(s, old, new, 1), for a non-empty old
ReplaceFirst(s, old, new) ==
    LET i == StrIndex(s, old)
    IN  IF i < 0 THEN s
        ELSE Slice(s, 0, i) \o new \o Slice(s, i + Len(old), Len(s))

\* strings.ReplaceAll(s, old, new), for a non-empty old
RECURSIVE ReplaceAll(_, _, _)
ReplaceAll(s, old, new) ==
    LET i == StrIndex(s, old)
    IN  IF i < 0 THEN s
        ELSE Slice(s, 0, i) \o new
                 \o ReplaceAll(Slice(s, i + Len(old), Len(s)), old, new)

\* strings.Split(s, sep) for a one-character sep: always at least one part
RECURSIVE StrSplit(_, _)
StrSplit(s, sep) ==
    LET i == StrIndex(s, sep)
    IN  IF i < 0 THEN <<s>>
        ELSE <<Slice(s, 0, i)>> \o StrSplit(Slice(s, i + 1, Len(s)), sep)

\* the decimal digits of a natural number
RECURSIVE NatToStr(_)
NatToStr(n) ==
    IF n < 10 THEN <<Digits[n + 1]>>
    ELSE NatToStr(n \div 10) \o <<Digits[(n % 10) + 1]>>

\* fmt.Sprintf("%d", n)
IntToStr(n) == IF n < 0 THEN <<"-">> \o NatToStr(-n) ELSE NatToStr(n)

\* the value of a run of decimal digits
RECURSIVE DigitsToNat(_)
DigitsToNat(ds) ==
    IF ds = <<>> THEN 0
    ELSE 10 * DigitsToNat(SubSeq(ds, 1, Len(ds) - 1)) + DigitVal(ds[Len(ds)])

\* the longest prefix of s made of digits
RECURSIVE DigitPrefix(_)
DigitPrefix(s) ==
    IF s # <<>> /\ IsDigit(s[1])
    THEN <<s[1]>> \o DigitPrefix(Tail(s))
    ELSE <<>>

\* fmt.Sscanf(s, "%d", &i): an optional sign, then the digits that follow;
\* what follows the digits is left unread and is no error, and digits
\* that do not fit an int64 are one.  ok is err == nil; i keeps its zero
\* value when the scan fails.
ScanInt(s) ==
    LET signed == s # <<>> /\ s[1] \in {"-", "+"}
        rest   == IF signed THEN Tail(s) ELSE s
        ds     == DigitPrefix(rest)
        n      == IF signed /\ s[1] = "-" THEN -DigitsToNat(ds) ELSE DigitsToNat(ds)
    IN  IF ds = <<>> \/ n > MaxInt64 \/ n < -MaxInt64 - 1
        THEN [ok |-> FALSE, i |-> 0]
        ELSE [ok |-> TRUE, i |-> n]

(***************************************************************************)
(* values of type any, and Go maps                                         *)
(***************************************************************************)
\* the nil interface value
Nil == [k |-> "nil", v |-> 0]

VInt(n) == [k |-> "int64", v |-> n]

VStr(s) == [k |-> "string", v |-> s]

VBool(b) == [k |-> "bool", v |-> b]

\* []any
VList(xs) == [k |-> "list", v |-> xs]

\* map[string]any held in an any
VMap(kv) == [k |-> "map", v |-> kv]

\* a Go map variable: the nil map, or a map with entries kv
NilMap == [isNil |-> TRUE, kv |-> <<>>]

GoMap(kv) == [isNil |-> FALSE, kv |-> kv]

\* m[key] of a Go map[string]any: the zero value nil for a missing key, and
\* for every key of the nil map
MapGet(kv, key) == IF key \in DOMAIN kv THEN kv[key] ELSE Nil

\* m[key] = value on a map that is not nil
MapPut(kv, key, value) ==
    [x \in DOMAIN kv \cup {key} |-> IF x = key THEN value ELSE kv[x]]

\* the characters of the model's strings, in byte order
Alphabet ==
    <<" ", "+", "-", ".", "/", "0", "1", "2", "3", "4", "5", "6", "7", "8",
      "9", ":", "<", ">", "[", "]", "_", "a", "b", "c", "d", "e", "f", "g",
      "h", "i", "j", "k", "l", "m", "n", "o", "p", "q", "r", "s", "t", "u",
      "v", "w", "x", "y", "z", "{", "}">>

CharRank(c) == CHOOSE i \in 1..Len(Alphabet) : Alphabet[i] = c

\* s < t in Go's string order
RECURSIVE StrLess(_, _)
StrLess(s, t) ==
    IF t = <<>> THEN FALSE
    ELSE IF s = <<>> THEN TRUE
    ELSE IF s[1] # t[1] THEN CharRank(s[1]) < CharRank(t[1])
    ELSE StrLess(Tail(s), Tail(t))

\* the keys of a map in increasing order, as fmt prints a map
RECURSIVE SortedKeys(_)
SortedKeys(S) ==
    IF S = {} THEN <<>>
    ELSE LET m == CHOOSE x \in S : \A y \in S \ {x} : StrLess(x, y)
         IN  <<m>> \o SortedKeys(S \ {m})

\* a float64 is held as its number of tenths: VFloat(25) is 2.5
VFloat(tenths) == [k |-> "float64", v |-> tenths]

\* val == float64(int64(val)) of a float64
FloatIsIntegral(tenths) == tenths % 10 = 0

\* int64(val) of a float64: truncation towards zero
FloatToInt(tenths) ==
    IF tenths >= 0 THEN tenths \div 10 ELSE -((-tenths) \div 10)

\* fmt.Sprintf("%f", val): six decimals
FormatF(tenths) ==
    LET a == IF tenths < 0 THEN -tenths ELSE tenths
    IN  (IF tenths < 0 THEN <<"-">> ELSE <<>>)
            \o NatToStr(a \div 10) \o <<".", Digits[(a % 10) + 1]>>
            \o <<"0", "0", "0", "0", "0">>

\* fmt.Sprint of a float64 (the %v verb): the shortest decimal
FormatG(tenths) ==
    LET a == IF tenths < 0 THEN -tenths ELSE tenths
    IN  (IF tenths < 0 THEN <<"-">> ELSE <<>>)
            \o NatToStr(a \div 10)
            \o (IF a % 10 = 0 THEN <<>> ELSE <<".", Digits[(a % 10) + 1]>>)

\* the float64 -0.0: equal to 0.0 and printed with its sign
NegZero == [k |-> "float64", v |-> 0, neg |-> TRUE]

IsNegZero(x) == "neg" \in DOMAIN x

\* the integer kinds a decoded response (int64, uint64) or a YAML document
\* (int) holds; a uint64 is one that fits an int64
IntKinds == {"int", "int64", "uint64"}

VUInt(n) == [k |-> "uint64", v |-> n]

\* fmt.Sprint(v)
RECURSIVE Sprint(_)
RECURSIVE SprintList(_)
RECURSIVE SprintMap(_, _)
Sprint(x) ==
    CASE x.k = "nil"     -> <<"<", "n", "i", "l", ">">>
      [] x.k \in IntKinds -> IntToStr(x.v)
      [] x.k = "float64" -> IF IsNegZero(x) THEN <<"-", "0">> ELSE FormatG(x.v)
      [] x.k = "string"  -> x.v
      [] x.k = "bool"    ->
            IF x.v THEN <<"t", "r", "u", "e">> ELSE <<"f", "a", "l", "s", "e">>
      [] x.k = "list"    -> <<"[">> \o SprintList(x.v) \o <<"]">>
      [] x.k = "map"     ->
            <<"m", "a", "p", "[">> \o SprintMap(x.v, SortedKeys(DOMAIN x.v))
                \o <<"]">>

SprintList(xs) ==
    IF xs = <<>> THEN <<>>
    ELSE Sprint(xs[1])
             \o (IF Len(xs) = 1 THEN <<>> ELSE <<" ">> \o SprintList(Tail(xs)))

SprintMap(kv, keys) ==
    IF keys = <<>> THEN <<>>
    ELSE keys[1] \o <<":">> \o Sprint(kv[keys[1]])
             \o (IF Len(keys) = 1 THEN <<>>
                 ELSE <<" ">> \o SprintMap(kv, Tail(keys)))

\* fmt.Sprintf("%T", v), as far as valuesEqual tells types apart
TypeName(x) == x.k

(***************************************************************************)
(* getValueByPath                                                          *)
(***************************************************************************)
\* One round of the loop over the parts of the path.  st is "next" (the
\* loop goes on with val), "ret" (the function returns val) or "panic"
\* (a slice bound or an index out of range stops the program).
PathStep(current, part) ==
    IF StrContains(part, <<"[">>)
    THEN LET lb == StrIndex(part, <<"[">>)
             rb == StrIndex(part, <<"]">>)
         IN  IF rb < lb + 1
             THEN [st |-> "panic", val |-> Nil]
             ELSE LET arrayPart == Slice(part, 0, lb)
                      indexPart == Slice(part, lb + 1, rb)
                      keyed == IF current.k = "map"
                               THEN MapGet(current.v, arrayPart)
                               ELSE current
                      index == ScanInt(indexPart).i
                  IN  IF keyed.k = "list"
                      THEN IF index < Len(keyed.v)
                           THEN IF index < 0
                                THEN [st |-> "panic", val |-> Nil]
                                ELSE [st |-> "next", val |-> keyed.v[index + 1]]
                           ELSE [st |-> "ret", val |-> Nil]
                      ELSE [st |-> "next", val |-> keyed]
    ELSE IF current.k = "map"
         THEN [st |-> "next", val |-> MapGet(current.v, part)]
         ELSE [st |-> "ret", val |-> Nil]

RECURSIVE PathWalk(_, _)
PathWalk(current, parts) ==
    IF parts = <<>> THEN [st |-> "ret", val |-> current]
    ELSE LET r == PathStep(current, parts[1])
         IN  IF r.st = "next" THEN PathWalk(r.val, Tail(parts)) ELSE r

\* getValueByPath(path, data), data the entries of the decoded response (a
\* nil map reads as an empty one): [st |-> "ret", val] or [st |-> "panic"]
getValueByPath(path, data) == PathWalk(VMap(data), StrSplit(path, <<".">>))

(***************************************************************************)
(* template resolution                                                     *)
(***************************************************************************)
\* fmt.Sprintf("{{%s}}", k)
Placeholder(k) == <<"{", "{">> \o k \o <<"}", "}">>

UUIDPlaceholder == Placeholder(<<"u", "u", "i", "d">>)

\* the n-th identifier uuid.New().String() hands out: every call returns a
\* new one
UUID(n) == <<"u">> \o NatToStr(n)

\* the loop of replaceVariables over "{{uuid}}": one new identifier for
\* each occurrence, the first of them numbered n.  [s, n]: the string and
\* the number of the next identifier.
RECURSIVE ReplaceUUIDs(_, _)
ReplaceUUIDs(s, n) ==
    IF StrContains(s, UUIDPlaceholder)
    THEN ReplaceUUIDs(ReplaceFirst(s, UUIDPlaceholder, UUID(n)), n + 1)
    ELSE [s |-> s, n |-> n]

\* the strValue switch of replaceVariables
VarString(x) ==
    CASE x.k \in IntKinds -> IntToStr(x.v)
      [] x.k = "float64" ->
            IF FloatIsIntegral(x.v) THEN IntToStr(FloatToInt(x.v))
            ELSE FormatF(x.v)
      [] OTHER -> Sprint(x)

\* the loop of replaceVariables over r.variables, the keys visited in the
\* order the range statement happens to produce
RECURSIVE ReplaceVars(_, _, _)
ReplaceVars(s, kv, order) ==
    IF order = <<>> THEN s
    ELSE ReplaceVars(IF StrContains(s, Placeholder(order[1]))
                     THEN ReplaceAll(s, Placeholder(order[1]),
                                     VarString(kv[order[1]]))
                     ELSE s,
                     kv, Tail(order))

\* replaceVariables(s) with r.variables = vars: [s, n] as ReplaceUUIDs
ReplaceVarsAfter(u, kv, order) == [u EXCEPT !.s = ReplaceVars(@, kv, order)]

replaceVariables(s, vars, order, n) ==
    ReplaceVarsAfter(ReplaceUUIDs(s, n), vars.kv, order)

\* the orders in which a range statement can visit the keys S
Orders(S) ==
    {o \in [1..Cardinality(S) -> S] : \A i, j \in DOMAIN o : i # j => o[i] # o[j]}

(***************************************************************************)
(* replaceMapVariables                                                     *)
(***************************************************************************)
\* strings.TrimSpace(s), for the space character
RECURSIVE TrimSpace(_)
TrimSpace(s) ==
    IF s = <<>> THEN s
    ELSE IF s[1] = " " THEN TrimSpace(Tail(s))
    ELSE IF s[Len(s)] = " " THEN TrimSpace(SubSeq(s, 1, Len(s) - 1))
    ELSE s

\* what extractVarName returns for a string between "{{" and "}}"
InnerVarName(varName) ==
    IF StrContains(varName, <<"{", "{">>) \/ StrContains(varName, <<"}", "}">>)
    THEN <<>>
    ELSE varName

\* extractVarName(s): "" unless s is one placeholder and nothing else
extractVarName(s) ==
    IF ~HasPrefix(s, <<"{", "{">>) \/ ~HasSuffix(s, <<"}", "}">>)
    THEN <<>>
    ELSE InnerVarName(TrimSpace(Slice(s, 2, Len(s) - 2)))

\* isNumericString(s)
isNumericString(s) ==
    /\ s # <<>>
    /\ \A j \in 1..Len(s) :
           \/ j = 1 /\ s[j] = "-"
           \/ IsDigit(s[j])
           \/ s[j] \in {".", "e", "E", "+"}

\* fmt.Sscanf(s, "%f", &f) for the strings parseNumber hands it once "%d"
\* has failed, which have no digit before the point: an optional sign, a
\* point and one digit, read as so many tenths; a string with no digit at
\* all is an error.  [ok, f]
ScanFloat(s) ==
    LET signed == s # <<>> /\ s[1] \in {"-", "+"}
        rest   == IF signed THEN Tail(s) ELSE s
    IN  CASE Len(rest) = 2 /\ rest[1] = "." /\ IsDigit(rest[2]) ->
                 [ok |-> TRUE,
                  f  |-> IF signed /\ s[1] = "-" THEN -DigitVal(rest[2])
                         ELSE DigitVal(rest[2])]
          [] \A j \in 1..Len(rest) : ~IsDigit(rest[j]) ->
                 [ok |-> FALSE, f |-> 0]

\* parseNumber(s) once "%d" has failed
ParsedFloat(f) ==
    IF ~f.ok THEN [ok |-> FALSE, val |-> Nil]
    ELSE IF FloatIsIntegral(f.f) THEN [ok |-> TRUE, val |-> VInt(FloatToInt(f.f))]
    ELSE [ok |-> TRUE, val |-> VFloat(f.f)]

\* parseNumber(s) given what "%d" made of s
ParsedInt(d, s) ==
    IF d.ok THEN [ok |-> TRUE, val |-> VInt(d.i)] ELSE ParsedFloat(ScanFloat(s))

\* parseNumber(s): [ok, val]
parseNumber(s) == ParsedInt(ScanInt(s), s)

\* the number parseNumber made of replaced, or replaced itself
ParsedOr(replaced, num) == IF num.ok THEN num.val ELSE VStr(replaced)

\* if isNumericString(replaced) { if num, ok := parseNumber(replaced); ok
NumberOr(replaced) ==
    IF isNumericString(replaced) THEN ParsedOr(replaced, parseNumber(replaced))
    ELSE VStr(replaced)

\* the stored value is not looked up: the resolved text is parsed again
ResolvedFieldReparsed(val, replaced, varName, vars) ==
    IF replaced = val THEN VStr(replaced) ELSE NumberOr(replaced)

\* the string case of replaceMapVariables: what result[k] becomes for the
\* value val, replaced being replaceVariables(val)
ResolvedField(val, replaced, varName, vars) ==
    IF replaced = val THEN VStr(replaced)
    ELSE IF varName # <<>> /\ varName \in DOMAIN vars.kv THEN vars.kv[varName]
    ELSE NumberOr(replaced)

\* an element of a []any in replaceMapVariables that is a string
ResolvedItem(itemStr, replaced) ==
    IF replaced # itemStr THEN NumberOr(replaced)
    ELSE VStr(replaced)

\* result[k] and the number of the next identifier
FieldOf(val, r, vars) ==
    [val |-> ResolvedField(val, r.s, extractVarName(val), vars), n |-> r.n]

ItemOf(itemStr, r) == [val |-> ResolvedItem(itemStr, r.s), n |-> r.n]

\* replaceMapVariables(m) with r.variables = vars: [kv, n], kv the entries
\* of the result.  The entries are taken in the order of their keys: the
\* order of the range statement decides only which new identifier goes to
\* which entry.
RECURSIVE replaceMapVariables(_, _, _, _)
RECURSIVE ResolveEntries(_, _, _, _, _)
RECURSIVE ResolveItems(_, _, _, _)
WithItem(first, rest) == [xs |-> <<first>> \o rest.xs, n |-> rest.n]

ItemThenRest(first, items, vars, order) ==
    WithItem(first.val, ResolveItems(Tail(items), vars, order, first.n))

\* the loop over the elements of a []any
ResolveItems(items, vars, order, n) ==
    IF items = <<>> THEN [xs |-> <<>>, n |-> n]
    ELSE ItemThenRest(
             IF items[1].k = "string"
             THEN ItemOf(items[1].v, replaceVariables(items[1].v, vars, order, n))
             ELSE [val |-> items[1], n |-> n],
             items, vars, order)

AsList(r) == [val |-> VList(r.xs), n |-> r.n]

AsMap(r) == [val |-> VMap(r.kv), n |-> r.n]

\* the switch of replaceMapVariables on the type of a value: [val, n]
ResolveValue(v, vars, order, n) ==
    CASE v.k = "string" -> FieldOf(v.v, replaceVariables(v.v, vars, order, n), vars)
      [] v.k = "map"    -> AsMap(replaceMapVariables(v.v, vars, order, n))
      [] v.k = "list"   -> AsList(ResolveItems(v.v, vars, order, n))
      [] OTHER          -> [val |-> v, n |-> n]

WithEntry(key, val, rest) == [kv |-> MapPut(rest.kv, key, val), n |-> rest.n]

EntryThenRest(first, kv, keys, vars, order) ==
    WithEntry(keys[1], first.val, ResolveEntries(kv, Tail(keys), vars, order, first.n))

\* the loop of replaceMapVariables over the entries of m
ResolveEntries(kv, keys, vars, order, n) ==
    IF keys = <<>> THEN [kv |-> <<>>, n |-> n]
    ELSE EntryThenRest(ResolveValue(kv[keys[1]], vars, order, n), kv, keys,
                       vars, order)

replaceMapVariables(m, vars, order, n) ==
    ResolveEntries(m, SortedKeys(DOMAIN m), vars, order, n)

(***************************************************************************)
(* buildRequest                                                            *)
(***************************************************************************)
\* the methods http.NewRequest accepts among those the model configures
ValidMethods == {"", "GET", "POST"}

\* buildRequest(cfg): the path is resolved and appended to the base URL,
\* and http.NewRequest refuses an invalid method.  [err, req, n]
NewRequest(method, baseURL, path) ==
    IF method \notin ValidMethods
    THEN [err |-> TRUE, req |-> [Method |-> "", URL |-> <<>>], n |-> path.n]
    ELSE [err |-> FALSE,
          req |-> [Method |-> method, URL |-> baseURL \o path.s],
          n   |-> path.n]

buildRequest(cfg, baseURL, vars, order, n) ==
    NewRequest(cfg.Method, baseURL, replaceVariables(cfg.Path, vars, order, n))

(***************************************************************************)
(* comparison of values                                                    *)
(***************************************************************************)
\* toInt64(v): [ok, i]
toInt64(x) ==
    CASE x.k \in {"int", "int64"} -> [ok |-> TRUE, i |-> x.v]
      [] x.k = "uint64" ->
            IF x.v <= MaxInt64 THEN [ok |-> TRUE, i |-> x.v]
            ELSE [ok |-> FALSE, i |-> 0]
      [] x.k = "float64" ->
            IF FloatIsIntegral(x.v) THEN [ok |-> TRUE, i |-> FloatToInt(x.v)]
            ELSE [ok |-> FALSE, i |-> 0]
      [] x.k = "string" -> ScanInt(x.v)
      [] OTHER -> [ok |-> FALSE, i |-> 0]

\* toFloat64(v): [ok, f], f in tenths
toFloat64(x) ==
    CASE x.k = "float64" -> [ok |-> TRUE, f |-> x.v]
      [] x.k \in IntKinds -> [ok |-> TRUE, f |-> 10 * x.v]
      [] OTHER -> [ok |-> FALSE, f |-> 0]

\* valuesEqual(a, b) for values of different types: as int64 when both
\* convert, else as float64 when both convert, else as printed
EqualConverted(a, b, ai, bi, af, bf) ==
    IF ai.ok /\ bi.ok THEN ai.i = bi.i
    ELSE IF af.ok /\ bf.ok THEN af.f = bf.f
    ELSE Sprint(a) = Sprint(b)

\* valuesEqual(a, b)
valuesEqual(a, b) ==
    IF TypeName(a) = TypeName(b) THEN Sprint(a) = Sprint(b)
    ELSE EqualConverted(a, b, toInt64(a), toInt64(b), toFloat64(a), toFloat64(b))

(***************************************************************************)
(* executeAssertion and validateExpectation                                *)
(***************************************************************************)
\* the comparison of the three ordering operators, on tenths
OrderingHolds(op, numVal, expectedNum) ==
    CASE op = "greaterThan"        -> numVal > expectedNum
      [] op = "greaterThanOrEqual" -> numVal >= expectedNum
      [] op = "lessThan"           -> numVal < expectedNum

\* the three ordering operators of executeAssertion, both sides converted
OrderingError(op, numVal, expectedNum) ==
    IF ~numVal.ok THEN "assertion failed: should be number"
    ELSE IF ~expectedNum.ok
    THEN "assertion failed: expected value should be number"
    ELSE IF OrderingHolds(op, numVal.f, expectedNum.f) THEN ""
    ELSE "assertion failed"

\* the switch of executeAssertion on the operator: "" for a passing
\* assertion, otherwise the kind of error returned
AssertionError(op, value, expectedValue) ==
    CASE op = "equals" ->
            IF valuesEqual(value, expectedValue) THEN "" ELSE "assertion failed"
      [] op = "notEquals" ->
            IF valuesEqual(value, expectedValue) THEN "assertion failed" ELSE ""
      [] op = "contains" ->
            IF StrContains(Sprint(value), Sprint(expectedValue)) THEN ""
            ELSE "assertion failed"
      [] op = "startsWith" ->
            IF HasPrefix(Sprint(value), Sprint(expectedValue)) THEN ""
            ELSE "assertion failed"
      [] op = "notEmpty" ->
            IF value.k = "nil" \/ (value.k = "string" /\ value.v = <<>>)
            THEN "assertion failed" ELSE ""
      [] op = "isArray" ->
            IF value.k = "list" THEN "" ELSE "assertion failed"
      [] op \in {"greaterThan", "greaterThanOrEqual", "lessThan"} ->
            OrderingError(op, toFloat64(value), toFloat64(expectedValue))
      [] OTHER -> "unknown operator"

\* executeAssertion once the path is walked (got) and a string operand is
\* resolved (operand)
AssertionOutcome(assertion, got, operand, n) ==
    IF got.st = "panic"
    THEN [panic |-> TRUE, err |-> "", n |-> n]
    ELSE [panic |-> FALSE,
          err   |-> AssertionError(assertion.Operator, got.val,
                                   IF assertion.Value.k = "string"
                                   THEN VStr(operand.s) ELSE assertion.Value),
          n     |-> operand.n]

\* executeAssertion(assertion, data): [panic, err, n]
executeAssertion(assertion, data, vars, order, n) ==
    AssertionOutcome(assertion,
                     getValueByPath(assertion.Path, data),
                     IF assertion.Value.k = "string"
                     THEN replaceVariables(assertion.Value.v, vars, order, n)
                     ELSE [s |-> <<>>, n |-> n],
                     n)

\* what validateExpectation looked at, in order
FieldCheck(key) == [kind |-> "field", key |-> key, idx |-> 0]

AssertionCheck(idx) == [kind |-> "assertion", key |-> <<>>, idx |-> idx]

\* the body of the loop of validateExpectation over expect.ResponseBody:
\* "" when the field is as expected
FieldError(expected, respKv, key) ==
    IF key \notin DOMAIN respKv THEN "field not found"
    ELSE IF expected[key].k = "nil"
    THEN IF respKv[key].k # "nil" THEN "field expected null" ELSE ""
    ELSE IF Sprint(respKv[key]) # Sprint(expected[key]) THEN "field mismatch"
    ELSE ""

\* a check was made, and then those of rest
After(check, rest) == [rest EXCEPT !.trace = <<check>> \o @]

\* the loop of validateExpectation over expect.ResponseBody, its keys
\* visited in the order the range statement happens to produce: [err, trace]
RECURSIVE CheckFields(_, _, _)
CheckFieldsFrom(e, expected, respKv, order) ==
    IF e # "" THEN [err |-> e, trace |-> <<FieldCheck(order[1])>>]
    ELSE After(FieldCheck(order[1]), CheckFields(expected, respKv, Tail(order)))

CheckFields(expected, respKv, order) ==
    IF order = <<>> THEN [err |-> "", trace |-> <<>>]
    ELSE CheckFieldsFrom(FieldError(expected, respKv, order[1]), expected,
                         respKv, order)

\* the loop of validateExpectation over expect.Assertions, from the idx-th
\* on: [panic, err, trace, n]
RECURSIVE CheckAssertions(_, _, _, _, _, _)
CheckAssertionsFrom(a, assertions, idx, data, vars, order) ==
    IF a.panic \/ a.err # ""
    THEN [panic |-> a.panic, err |-> a.err, trace |-> <<AssertionCheck(idx)>>,
          n |-> a.n]
    ELSE After(AssertionCheck(idx),
               CheckAssertions(assertions, idx + 1, data, vars, order, a.n))

CheckAssertions(assertions, idx, data, vars, order, n) ==
    IF idx > Len(assertions)
    THEN [panic |-> FALSE, err |-> "", trace |-> <<>>, n |-> n]
    ELSE CheckAssertionsFrom(executeAssertion(assertions[idx], data, vars, order, n),
                             assertions, idx, data, vars, order)

\* the status code is never compared
StatusNeverChecked(expect, statusCode) == FALSE

\* the status code check that opens validateExpectation: it fails
StatusMismatch(expect, statusCode) ==
    expect.StatusCode # 0 /\ expect.StatusCode # statusCode

\* validateExpectation after the status code check: the fields, then the
\* assertions
FieldsThenAssertions(fields, asserts, n) ==
    IF fields.err # ""
    THEN [panic |-> FALSE, err |-> fields.err, trace |-> fields.trace, n |-> n]
    ELSE [asserts EXCEPT !.trace = fields.trace \o @]

\* validateExpectation(expect, statusCode, respData): [panic, err, trace, n];
\* err is "" for a nil error
validateExpectation(expect, statusCode, respData, vars, order, fieldOrder, n) ==
    IF StatusMismatch(expect, statusCode)
    THEN [panic |-> FALSE, err |-> "status code mismatch", trace |-> <<>>, n |-> n]
    ELSE FieldsThenAssertions(
             IF expect.ResponseBody.isNil THEN [err |-> "", trace |-> <<>>]
             ELSE CheckFields(expect.ResponseBody.kv, respData.kv, fieldOrder),
             CheckAssertions(expect.Assertions, 1, respData.kv, vars, order, n),
             n)

(***************************************************************************)
(* saveVariables and isDependencyPassed                                    *)
(***************************************************************************)
\* saveVariables(save, respData) with r.variables = vars, the entries of
\* save visited in the order the range statement happens to produce:
\* [panic, vars].  An assignment to an entry of a nil map panics, as does
\* getValueByPath on some paths; what was stored before the panic stays.
RECURSIVE saveVariables(_, _, _, _)
SaveFrom(got, vars, save, respData, saveOrder) ==
    IF got.st = "panic" \/ vars.isNil
    THEN [panic |-> TRUE, vars |-> vars]
    ELSE saveVariables(GoMap(MapPut(vars.kv, saveOrder[1], got.val)), save,
                       respData, Tail(saveOrder))

saveVariables(vars, save, respData, saveOrder) ==
    IF saveOrder = <<>> THEN [panic |-> FALSE, vars |-> vars]
    ELSE SaveFrom(getValueByPath(save[saveOrder[1]], respData.kv), vars, save,
                  respData, saveOrder)

\* isDependencyPassed(name): the Passed of the first result of that name
\* any result of that name that Passed will do
isDependencyPassedAnywhere(rs, name) ==
    \E j \in 1..Len(rs) : rs[j].Name = name /\ rs[j].Passed

\* isDependencyPassed(name) with r.results = rs
isDependencyPassed(rs, name) ==
    LET named == {j \in 1..Len(rs) : rs[j].Name = name}
    IN  IF named = {} THEN FALSE
        ELSE rs[CHOOSE j \in named : \A l \in named : j <= l].Passed

(***************************************************************************)
(* The configuration.  The suite is the runner's input: NewTestRunner      *)
(* keeps its variables, and Run reads its setup actions, scenarios, cases  *)
(* and teardown actions one after the other.  The model draws each of them *)
(* from the sets below at the moment the code reads it.                    *)
(***************************************************************************)
ScenarioNames == <<"S1", "S2">>

CaseNames == {"A", "B"}

\* "id" and "ids", keys of the response; "uid", a variable; "ids[-1]", a
\* path with an index
IdKey == <<"i", "d">>

IdsKey == <<"i", "d", "s">>

UidVar == <<"u", "i", "d">>

IdsAtMinusOne == <<"i", "d", "s", "[", "-", "1", "]">>

\* suite.base_url
BaseURL == <<"h">>

\* suite.variables: absent from the document (a nil map), or declared
InitialVariables == {NilMap, GoMap((UidVar :> VInt(1)))}

\* request: a path with a placeholder, and a method http.NewRequest refuses
GoodRequest == [Method |-> "GET", Path |-> <<"/">> \o Placeholder(UidVar)]

BadRequest == [Method |-> "BAD METHOD", Path |-> <<"/">>]

\* retry: absent (a nil pointer), or times and interval as declared
NoRetry == [present |-> FALSE, Times |-> 0, Interval |-> 0]

Retries ==
    {NoRetry} \cup {[present |-> TRUE, Times |-> t, Interval |-> 10] : t \in 0..MaxTimes}

\* expect: nothing checked; a status code, a field and an assertion; an
\* assertion on a path with a negative index
ExpectNothing == [StatusCode |-> 0, ResponseBody |-> NilMap, Assertions |-> <<>>]

ExpectId ==
    [StatusCode |-> 200,
     ResponseBody |-> GoMap((IdKey :> [k |-> "int", v |-> 7])),
     Assertions |-> <<[Path |-> IdKey, Operator |-> "notEmpty", Value |-> Nil]>>]

ExpectLastId ==
    [StatusCode |-> 0, ResponseBody |-> NilMap,
     Assertions |-> <<[Path |-> IdsAtMinusOne, Operator |-> "notEmpty",
                       Value |-> Nil]>>]

\* save: absent, or uid <- id
Saves == {NilMap, GoMap((UidVar :> IdKey))}

\* The configured cases.  A case that is gated or cannot be built never
\* reads its other fields, so these vary for the cases that are sent:
\* every retry policy with the expectation that can pass or fail, with and
\* without a save map; and, sent once, the expectation that checks nothing
\* and the one on the indexed path.
TestCases ==
    [Name : CaseNames, DependsOn : {""}, Request : {GoodRequest},
     Expect : {ExpectId}, Save : Saves, Retry : Retries]
    \cup
    [Name : CaseNames, DependsOn : {""}, Request : {GoodRequest},
     Expect : {ExpectNothing, ExpectLastId}, Save : {NilMap}, Retry : {NoRetry}]
    \cup
    [Name : CaseNames, DependsOn : {"A"}, Request : {GoodRequest},
     Expect : {ExpectId}, Save : Saves, Retry : {NoRetry}]
    \cup
    [Name : CaseNames, DependsOn : {"", "A"}, Request : {BadRequest},
     Expect : {ExpectNothing}, Save : {NilMap}, Retry : {NoRetry}]

\* what the server answers
StatusCodes == {200, 404}

\* the body safejson decodes: {"id": 7, "ids": [7]}
Bodies == {(IdKey :> VInt(7)) @@ (IdsKey :> VList(<<VInt(7)>>))}

\* what reading and decoding the body of a response comes to
BodyOutcomes == {"read error", "not json", "empty"}

\* setup and teardown actions: a type the cleanup handler runs, and a type
\* executeAction does not know
ActionTypes == {"cleanup", "bogus"}

\* a *http.Response or *ResponseData: nil, or one with its status code.
\* The headers are left out, and so is the Body of a recorded
\* ResponseData, which the runner never reads back (respData holds the
\* decoded body while the case runs).
NoResponse == [present |-> FALSE, StatusCode |-> 0]

NoCase ==
    [Name |-> "", DependsOn |-> "", Request |-> [Method |-> "", Path |-> <<>>],
     Expect |-> [StatusCode |-> 0, ResponseBody |-> NilMap, Assertions |-> <<>>],
     Save |-> NilMap, Retry |-> NoRetry]

NoResult ==
    [Scenario |-> "", Name |-> "", Passed |-> FALSE, Error |-> "",
     Response |-> NoResponse]

NoRequest == [Method |-> "", URL |-> <<>>]

\* no function is called on its own
NoCall == [fn |-> ""]

(***************************************************************************)
(* state                                                                   *)
(***************************************************************************)
VARIABLES
    variables,    \* r.variables
    results,      \* r.results
    pc,           \* where Run stands
    runErr,       \* Run returned an error
    scn,          \* the number of the scenario the outer loop of Run is in
    tc,           \* runTestCase: the case
    result,       \* runTestCase: result
    req,          \* runTestCase: req
    i,            \* runTestCase: the attempt loop's i
    err,          \* runTestCase: err != nil after client.Do
    resp,         \* runTestCase: resp
    respData,     \* runTestCase: respData
    minted,       \* identifiers uuid.New has handed out
    nActions,     \* setup or teardown actions executed so far
    nCases,       \* the number of test cases in r.suite.Scenarios
    \* bookkeeping, read by the properties only
    base,         \* len(r.results) when Run was called
    declared,     \* scenario and name of the cases Run has reached, in order
    calls,        \* client.Do calls of the current case
    sleeps,       \* time.Sleep calls of the current case
    validations,  \* validateExpectation calls of the current case
    vtrace,       \* the checks the last validateExpectation made
    startVars,    \* r.variables when the current case started
    teardownErr,  \* executeTeardown returned an error
    ctxDone,      \* the deadline of the ctx handed to Run has passed
    arg,          \* a function called on its own: the function and its arguments
    out           \* what that call returned

runnerVars == <<variables, results, pc, runErr, scn, minted, nActions, nCases>>

caseVars == <<tc, result, req, i, err, resp, respData>>

bookVars == <<base, declared, calls, sleeps, validations, vtrace, startVars>>

\* a function of the runner called on its own
callVars == <<arg, out>>

vars == <<runnerVars, caseVars, bookVars, teardownErr, ctxDone, callVars>>

\* the state NewTestRunner leaves
Init ==
    /\ variables \in InitialVariables
    /\ results = <<>>
    /\ pc = "idle"
    /\ runErr = FALSE
    /\ scn = 0
    /\ tc = NoCase
    /\ result = NoResult
    /\ req = NoRequest
    /\ i = 0
    /\ err = FALSE
    /\ resp = NoResponse
    /\ respData = NilMap
    /\ minted = 0
    /\ nActions = 0
    /\ nCases \in 0..MaxCases
    /\ base = 0
    /\ declared = <<>>
    /\ calls = 0
    /\ sleeps = 0
    /\ validations = 0
    /\ vtrace = <<>>
    /\ startVars = NilMap
    /\ teardownErr = FALSE
    /\ ctxDone = FALSE
    /\ arg = NoCall
    /\ out = NoCall

(***************************************************************************)
(* Run: setup                                                              *)
(***************************************************************************)
\* Run is called: executeSetup begins
Run ==
    /\ pc = "idle"
    /\ pc' = "setup"
    /\ base' = Len(results)
    /\ UNCHANGED <<variables, results, runErr, scn, minted, nActions, nCases, teardownErr, ctxDone, callVars, caseVars,
                   declared, calls, sleeps, validations, vtrace, startVars>>

\* executeAction(action): whether it returns an error.  The cleanup
\* handler decides for the types handed to it; an unknown type is an error.
executeAction(type, handlerFails) ==
    IF type \in {"cleanup", "sql"} THEN handlerFails ELSE TRUE

\* the error of a setup action is noted and executeSetup goes on
SetupActionGoesOn(type, handlerFails) ==
    /\ pc = "setup"
    /\ nActions < MaxActions
    /\ runErr' = (runErr \/ executeAction(type, handlerFails))
    /\ nActions' = nActions + 1
    /\ UNCHANGED <<variables, results, pc, scn, minted, nCases, teardownErr,
                   ctxDone, callVars, caseVars, bookVars>>

\* executeSetup runs one more action; its error makes Run return
\* "setup failed"
SetupAction(type, handlerFails) ==
    /\ pc = "setup"
    /\ nActions < MaxActions
    /\ IF executeAction(type, handlerFails)
       THEN /\ runErr' = TRUE
            /\ pc' = "done"
            /\ nActions' = 0
       ELSE /\ nActions' = nActions + 1
            /\ UNCHANGED <<runErr, pc>>
    /\ UNCHANGED <<variables, results, scn, minted, nCases, teardownErr, ctxDone, callVars, caseVars, bookVars>>

\* executeSetup has run every action: the scenario loop begins
SetupCompleted ==
    /\ pc = "setup"
    /\ pc' = "loop"
    /\ nActions' = 0
    /\ UNCHANGED <<variables, results, runErr, scn, minted, nCases, teardownErr, ctxDone, callVars, caseVars, bookVars>>

(***************************************************************************)
(* Run: the loops over scenarios and cases                                 *)
(***************************************************************************)
\* the outer loop goes to any scenario
AnyScenario ==
    /\ pc = "loop"
    /\ \E n \in 1..Len(ScenarioNames) : n # scn /\ scn' = n
    /\ UNCHANGED <<variables, results, pc, runErr, minted, nActions, nCases,
                   teardownErr, ctxDone, callVars, caseVars, bookVars>>

\* the outer loop reaches the next scenario
NextScenario ==
    /\ pc = "loop"
    /\ scn < Len(ScenarioNames)
    /\ scn' = scn + 1
    /\ UNCHANGED <<variables, results, pc, runErr, minted, nActions, nCases, teardownErr, ctxDone, callVars, caseVars,
                   bookVars>>

\* one attempt more than declared
retryTimesOneMore(c) == IF c.Retry.present THEN c.Retry.Times + 1 ELSE 1

\* retryTimes and retryInterval of runTestCase
retryTimes(c) == IF c.Retry.present THEN c.Retry.Times ELSE 1

retryInterval(c) == IF c.Retry.present THEN c.Retry.Interval ELSE 0

\* the dependency is never looked up
dependencyIgnored(c, rs) == TRUE

\* the dependency check of runTestCase: the case goes on
dependencyMet(c, rs) == c.DependsOn = "" \/ isDependencyPassed(rs, c.DependsOn)

\* runTestCase after its first buildRequest returned b: a build error
\* fails the case, else the attempt loop begins
Built(b, fresh) ==
    /\ minted' = b.n
    /\ req' = b.req
    /\ IF b.err
       THEN /\ result' = [fresh EXCEPT !.Error = "build request failed"]
            /\ pc' = "return"
       ELSE /\ result' = fresh
            /\ pc' = "attempt"

\* runTestCase up to the attempt loop, result initialised to fresh
Begin(c, fresh) ==
    IF ~dependencyMet(c, results)
    THEN /\ result' = [fresh EXCEPT !.Error = "dependency not passed"]
         /\ pc' = "return"
         /\ UNCHANGED <<req, minted>>
    ELSE \E order \in Orders(DOMAIN variables.kv) :
             Built(buildRequest(c.Request, BaseURL, variables, order, minted), fresh)

\* the inner loop reaches the next case c and calls runTestCase: the
\* dependency check and the first buildRequest
StartCase(c) ==
    /\ pc = "loop"
    /\ scn >= 1
    /\ Len(declared) < nCases
    /\ tc' = c
    /\ declared' = Append(declared, [Scenario |-> ScenarioNames[scn], Name |-> c.Name])
    /\ calls' = 0
    /\ sleeps' = 0
    /\ validations' = 0
    /\ vtrace' = <<>>
    /\ startVars' = variables
    /\ i' = 0
    /\ err' = FALSE
    /\ resp' = NoResponse
    /\ respData' = NilMap
    /\ Begin(c, [NoResult EXCEPT !.Scenario = ScenarioNames[scn], !.Name = c.Name])
    /\ UNCHANGED <<variables, results, runErr, scn, nActions, nCases, teardownErr, ctxDone, callVars, base>>

\* client.Do returns a response and the loop goes on to its next round
SendResponseNoBreak(statusCode) ==
    /\ pc = "attempt"
    /\ i < retryTimes(tc)
    /\ calls' = calls + 1
    /\ err' = FALSE
    /\ resp' = [present |-> TRUE, StatusCode |-> statusCode]
    /\ i' = i + 1
    /\ pc' = IF i + 1 < retryTimes(tc) THEN "attempt" ELSE "read"
    /\ UNCHANGED <<variables, results, runErr, scn, minted, nActions, nCases, teardownErr, ctxDone, callVars, tc,
                   result, req, respData, base, declared, sleeps,
                   validations, vtrace, startVars>>

\* one round of the attempt loop: client.Do returns a response and the
\* loop breaks
SendResponse(statusCode) ==
    /\ pc = "attempt"
    /\ i < retryTimes(tc)
    /\ calls' = calls + 1
    /\ err' = FALSE
    /\ resp' = [present |-> TRUE, StatusCode |-> statusCode]
    /\ pc' = "read"
    /\ UNCHANGED <<variables, results, runErr, scn, minted, nActions, nCases, teardownErr, ctxDone, callVars, tc,
                   result, req, i, respData, base, declared, sleeps,
                   validations, vtrace, startVars>>

\* req, _ = r.buildRequest(tc.Request)
Rebuilt(b) ==
    /\ req' = b.req
    /\ minted' = b.n

\* one round of the attempt loop: client.Do returns an error; unless this
\* was the last round the code sleeps and builds the request again
\* (buildRequest fails on the method alone, so a request that was built
\* once is built again)
SendError ==
    /\ pc = "attempt"
    /\ i < retryTimes(tc)
    /\ calls' = calls + 1
    /\ err' = TRUE
    /\ i' = i + 1
    /\ IF i < retryTimes(tc) - 1
       THEN /\ sleeps' = sleeps + 1
            /\ \E order \in Orders(DOMAIN variables.kv) :
                   Rebuilt(buildRequest(tc.Request, BaseURL, variables, order, minted))
       ELSE UNCHANGED <<sleeps, req, minted>>
    /\ UNCHANGED <<variables, results, pc, runErr, scn, nActions, nCases, teardownErr, ctxDone, callVars, tc, result,
                   resp, respData, base, declared, validations, vtrace,
                   startVars>>

\* the attempt loop ends without a response: with the last error the case
\* fails; with no error at all (no round was made) resp is nil and
\* resp.Body panics
LoopExhausted ==
    /\ pc = "attempt"
    /\ i >= retryTimes(tc)
    /\ IF err
       THEN /\ result' = [result EXCEPT !.Error = "request failed"]
            /\ pc' = "return"
       ELSE /\ pc' = "panicked"
            /\ UNCHANGED result
    /\ UNCHANGED <<variables, results, runErr, scn, minted, nActions, nCases, teardownErr, ctxDone, callVars, tc, req,
                   i, err, resp, respData, bookVars>>

\* a body that cannot be read or decoded ends the case with no message
ReadFailsSilently(outcome) ==
    /\ pc = "read"
    /\ outcome \in {"read error", "not json"}
    /\ pc' = "return"
    /\ UNCHANGED <<variables, results, runErr, scn, minted, nActions, nCases,
                   teardownErr, ctxDone, callVars, caseVars, bookVars>>

\* io.ReadAll fails, or the body is not JSON: the case fails
ReadFails(outcome) ==
    /\ pc = "read"
    /\ outcome \in {"read error", "not json"}
    /\ result' = [result EXCEPT !.Error = IF outcome = "read error"
                                          THEN "read response failed"
                                          ELSE "parse response failed"]
    /\ pc' = "return"
    /\ UNCHANGED <<variables, results, runErr, scn, minted, nActions, nCases, teardownErr, ctxDone, callVars, tc, req,
                   i, err, resp, respData, bookVars>>

\* the body is read and decoded (an empty body leaves respData nil), and
\* result.Response is set
ReadResponse(body) ==
    /\ pc = "read"
    /\ respData' = body
    /\ result' = [result EXCEPT !.Response =
                      [present |-> TRUE, StatusCode |-> resp.StatusCode]]
    /\ pc' = "validate"
    /\ UNCHANGED <<variables, results, runErr, scn, minted, nActions, nCases, teardownErr, ctxDone, callVars, tc, req,
                   i, err, resp, bookVars>>

\* the capture is made before the outcome of the validation is looked at
CaptureBeforeValidated(v) ==
    /\ vtrace' = v.trace
    /\ minted' = v.n
    /\ variables' = IF tc.Save.isNil \/ variables.isNil THEN variables
                    ELSE saveVariables(variables, tc.Save.kv, respData,
                             CHOOSE o \in Orders(DOMAIN tc.Save.kv) : TRUE).vars
    /\ IF v.panic
       THEN /\ pc' = "panicked"
            /\ UNCHANGED result
       ELSE IF v.err # ""
       THEN /\ result' = [result EXCEPT !.Error = v.err]
            /\ pc' = "return"
       ELSE /\ pc' = "save"
            /\ UNCHANGED result

\* validateExpectation returned v: its error fails the case; r.variables
\* is as it was
Validated(v) ==
    /\ UNCHANGED variables
    /\ vtrace' = v.trace
    /\ minted' = v.n
    /\ IF v.panic
       THEN /\ pc' = "panicked"
            /\ UNCHANGED result
       ELSE IF v.err # ""
       THEN /\ result' = [result EXCEPT !.Error = v.err]
            /\ pc' = "return"
       ELSE /\ pc' = "save"
            /\ UNCHANGED result

\* validateExpectation is called
Validate ==
    /\ pc = "validate"
    /\ validations' = validations + 1
    /\ \E order \in Orders(DOMAIN variables.kv) :
       \E fieldOrder \in Orders(DOMAIN tc.Expect.ResponseBody.kv) :
           Validated(validateExpectation(tc.Expect, resp.StatusCode, respData,
                                         variables, order, fieldOrder, minted))
    /\ UNCHANGED <<results, runErr, scn, nActions, nCases, teardownErr, ctxDone, callVars, tc, req, i, err,
                   resp, respData, base, declared, calls, sleeps, startVars>>

\* saveVariables returned s (or panicked): the case has passed
Saved(s) ==
    /\ variables' = s.vars
    /\ IF s.panic
       THEN /\ pc' = "panicked"
            /\ UNCHANGED result
       ELSE /\ result' = [result EXCEPT !.Passed = TRUE]
            /\ pc' = "return"

\* the expectation holds: saveVariables when the case has a save map, and
\* the case has passed
Save ==
    /\ pc = "save"
    /\ IF tc.Save.isNil
       THEN /\ result' = [result EXCEPT !.Passed = TRUE]
            /\ pc' = "return"
            /\ UNCHANGED variables
       ELSE \E saveOrder \in Orders(DOMAIN tc.Save.kv) :
                Saved(saveVariables(variables, tc.Save.kv, respData, saveOrder))
    /\ UNCHANGED <<results, runErr, scn, minted, nActions, nCases, teardownErr, ctxDone, callVars, tc, req, i, err,
                   resp, respData, bookVars>>

\* only the result of a case that passed is appended
RecordPassedOnly ==
    /\ pc = "return"
    /\ results' = IF result.Passed THEN Append(results, result) ELSE results
    /\ pc' = "loop"
    /\ tc' = NoCase
    /\ result' = NoResult
    /\ req' = NoRequest
    /\ i' = 0
    /\ err' = FALSE
    /\ resp' = NoResponse
    /\ respData' = NilMap
    /\ calls' = 0
    /\ sleeps' = 0
    /\ validations' = 0
    /\ vtrace' = <<>>
    /\ startVars' = NilMap
    /\ UNCHANGED <<variables, runErr, scn, minted, nActions, nCases, teardownErr, ctxDone, callVars, base, declared>>

\* runTestCase returns and Run appends the result; the locals of
\* runTestCase are gone
RecordResult ==
    /\ pc = "return"
    /\ results' = Append(results, result)
    /\ pc' = "loop"
    /\ tc' = NoCase
    /\ result' = NoResult
    /\ req' = NoRequest
    /\ i' = 0
    /\ err' = FALSE
    /\ resp' = NoResponse
    /\ respData' = NilMap
    /\ calls' = 0
    /\ sleeps' = 0
    /\ validations' = 0
    /\ vtrace' = <<>>
    /\ startVars' = NilMap
    /\ UNCHANGED <<variables, runErr, scn, minted, nActions, nCases, teardownErr, ctxDone, callVars, base, declared>>

(***************************************************************************)
(* Run: teardown                                                           *)
(***************************************************************************)
\* every case of every scenario has run: executeTeardown begins
ScenariosCompleted ==
    /\ pc = "loop"
    /\ Len(declared) = nCases
    /\ pc' = "teardown"
    /\ UNCHANGED <<variables, results, runErr, scn, minted, nActions, nCases, teardownErr, ctxDone, callVars, caseVars,
                   bookVars>>

\* the error of a teardown action is returned by Run
TeardownActionAborts(type, handlerFails) ==
    /\ pc = "teardown"
    /\ nActions < MaxActions
    /\ IF executeAction(type, handlerFails)
       THEN /\ pc' = "done"
            /\ nActions' = 0
            /\ teardownErr' = TRUE
            /\ runErr' = TRUE
       ELSE /\ nActions' = nActions + 1
            /\ UNCHANGED <<pc, teardownErr, runErr>>
    /\ UNCHANGED <<variables, results, scn, minted, nCases, ctxDone,
                   callVars, caseVars, bookVars>>

\* the error of a teardown action is noted and executeTeardown goes on
TeardownActionGoesOn(type, handlerFails) ==
    /\ pc = "teardown"
    /\ nActions < MaxActions
    /\ teardownErr' = (teardownErr \/ executeAction(type, handlerFails))
    /\ nActions' = nActions + 1
    /\ UNCHANGED <<variables, results, pc, runErr, scn, minted, nCases, ctxDone,
                   callVars, caseVars, bookVars>>

\* executeTeardown runs one more action; its error ends the teardown with
\* the actions after it not run (nActions stays the number of those run
\* before it), is printed as a warning, and Run returns nil
TeardownAction(type, handlerFails) ==
    /\ pc = "teardown"
    /\ nActions < MaxActions
    /\ IF executeAction(type, handlerFails)
       THEN /\ pc' = "done"
            /\ teardownErr' = TRUE
            /\ UNCHANGED nActions
       ELSE /\ nActions' = nActions + 1
            /\ UNCHANGED <<pc, teardownErr>>
    /\ UNCHANGED <<variables, results, runErr, scn, minted, nCases, ctxDone,
                   callVars, caseVars, bookVars>>

\* executeTeardown has run every action: the summary is printed and Run
\* returns nil
TeardownCompleted ==
    /\ pc = "teardown"
    /\ pc' = "done"
    /\ nActions' = 0
    /\ UNCHANGED <<variables, results, runErr, scn, minted, nCases, teardownErr, ctxDone, callVars, caseVars, bookVars>>

Next ==
    \/ Run
    \/ \E type \in ActionTypes, handlerFails \in BOOLEAN : SetupAction(type, handlerFails)
    \/ SetupCompleted
    \/ NextScenario
    \/ \E c \in TestCases : StartCase(c)
    \/ \E statusCode \in StatusCodes : SendResponse(statusCode)
    \/ SendError
    \/ LoopExhausted
    \/ \E outcome \in BodyOutcomes : ReadFails(outcome)
    \/ \E body \in {NilMap} \cup {GoMap(b) : b \in Bodies} : ReadResponse(body)
    \/ Validate
    \/ Save
    \/ RecordResult
    \/ ScenariosCompleted
    \/ \E type \in ActionTypes, handlerFails \in BOOLEAN : TeardownAction(type, handlerFails)
    \/ TeardownCompleted

Spec == Init /\ [][Next]_vars

(***************************************************************************)
(* Run with a ctx that has a deadline                                      *)
(***************************************************************************)
\* the deadline of ctx passes while Run is executing.  Run hands ctx to
\* executeSetup, runTestCase and executeTeardown, and none of them reads
\* it: the request is made by http.NewRequest, without the ctx, and the
\* wait is a time.Sleep.
DeadlineExpires ==
    /\ pc \notin {"idle", "done", "panicked"}
    /\ ~ctxDone
    /\ ctxDone' = TRUE
    /\ UNCHANGED <<runnerVars, caseVars, bookVars, teardownErr, callVars>>

NextWithDeadline == Next \/ DeadlineExpires

SpecWithDeadline == Init /\ [][NextWithDeadline]_vars

(***************************************************************************)
(* The run over a suite that also holds cases whose request path carries   *)
(* the {{uuid}} generator and whose retry policy allows every attempt.     *)
(***************************************************************************)
\* request: POST /{{uuid}}
UuidRequest == [Method |-> "POST", Path |-> <<"/">> \o UUIDPlaceholder]

UuidCases ==
    [Name : CaseNames, DependsOn : {""}, Request : {UuidRequest},
     Expect : {ExpectNothing}, Save : {NilMap},
     Retry : {[present |-> TRUE, Times |-> MaxTimes, Interval |-> 10]}]

StartUuidCase == \E c \in UuidCases : StartCase(c)

NextWithUuid == Next \/ StartUuidCase

SpecWithUuid == Init /\ [][NextWithUuid]_vars

(***************************************************************************)
(* The run of a suite of one case by a runner that was handed results      *)
(* beforehand: SetResults is called before Run.                            *)
(***************************************************************************)
\* a result as an earlier run recorded it
EarlierResult(name, passed) ==
    [NoResult EXCEPT !.Scenario = "S1", !.Name = name, !.Passed = passed,
                     !.Error = IF passed THEN "" ELSE "status code mismatch"]

\* the lists handed to SetResults: two results of the same name, and one
\* of another name before them
EarlierResults ==
    {<<EarlierResult("A", p), EarlierResult("A", q)>> : p, q \in BOOLEAN}
        \cup {<<EarlierResult("B", TRUE), EarlierResult("A", p),
                EarlierResult("A", q)>> : p, q \in BOOLEAN}

\* r.SetResults(rs)
SetResults(rs) ==
    /\ pc = "idle"
    /\ results = <<>>
    /\ results' = rs
    /\ UNCHANGED <<variables, pc, runErr, scn, minted, nActions, nCases,
                   caseVars, base, declared, calls, sleeps, validations,
                   vtrace, startVars, teardownErr, ctxDone, callVars>>

InitOneCase == Init /\ nCases = 1

NextWithResults == Next \/ \E rs \in EarlierResults : SetResults(rs)

SpecWithResults == InitOneCase /\ [][NextWithResults]_vars

(***************************************************************************)
(* Functions of the runner called on their own                             *)
(***************************************************************************)
\* r.variables for replaceMapVariables: integers as a response (int64) and
\* as the YAML document (int) give them, strings, a bool, a list, a map,
\* a variable named uuid, a variable whose value is the placeholder of
\* another one, and the nil map of a suite without variables
Stores ==
    {NilMap,
     GoMap((<<"a">> :> VInt(1)) @@ (<<"b">> :> VInt(2))),
     GoMap((<<"a">> :> [k |-> "int", v |-> 1]) @@ (<<"s">> :> VStr(<<"1">>))
               @@ (<<"t">> :> VBool(TRUE))),
     GoMap((<<"l">> :> VList(<<VInt(1)>>)) @@ (<<"m">> :> VMap((<<"a">> :> VInt(1))))
               @@ (<<"s">> :> VStr(<<"x">>))),
     GoMap((<<"u", "u", "i", "d">> :> VStr(<<"x">>))),
     GoMap((<<"a">> :> VStr(Placeholder(<<"b">>))) @@ (<<"b">> :> VStr(<<"x">>)))}

\* string values of a request body: one placeholder, placeholders mixed
\* with text or with each other, and plain text
FieldStrings ==
    {<<"{", "{", "a", "}", "}">>,
     <<"{", "{", "b", "}", "}">>,
     <<"{", "{", "s", "}", "}">>,
     <<"{", "{", "t", "}", "}">>,
     <<"{", "{", "l", "}", "}">>,
     <<"{", "{", "m", "}", "}">>,
     <<"{", "{", "a", "}", "}", "{", "{", "b", "}", "}">>,
     <<"1", "{", "{", "a", "}", "}">>,
     <<".", "{", "{", "a", "}", "}">>,
     <<"x", "{", "{", "a", "}", "}">>,
     <<"{", "{", "s", "}", "}", "{", "{", "s", "}", "}">>,
     <<"n">>,
     <<"{", "{", "u", "u", "i", "d", "}", "}">>,
     UUIDPlaceholder \o UUIDPlaceholder,
     <<"{", "{", " ", "a", " ", "}", "}">>}

\* request.body for the string f: f as a field, as a field of a nested
\* mapping two levels down, and as an element of a list
RequestBodiesOf(f) ==
    {(<<"f">> :> VStr(f)) @@ (<<"n">> :> [k |-> "int", v |-> 3]),
     (<<"o">> :> VMap((<<"p">> :> VMap((<<"f">> :> VStr(f)))))),
     (<<"f">> :> VList(<<VStr(f), [k |-> "int", v |-> 3]>>))}

RequestBodies == UNION {RequestBodiesOf(f) : f \in FieldStrings}

\* a path as the suite writes it: the segments joined by ".", a segment
\* being a key, or a key and an index in brackets
RECURSIVE PathString(_)
PathString(segs) ==
    LET seg == segs[1].key
                   \o (IF segs[1].indexed
                       THEN <<"[">> \o IntToStr(segs[1].idx) \o <<"]">>
                       ELSE <<>>)
    IN  IF Len(segs) = 1 THEN seg ELSE seg \o <<".">> \o PathString(Tail(segs))

Key(k) == [key |-> k, indexed |-> FALSE, idx |-> 0]

At(k, n) == [key |-> k, indexed |-> TRUE, idx |-> n]

\* the decoded responses paths are resolved on: {"a": {"b": [1, 2, 3]}},
\* and the same with "n": 5 and with "n": null
PathData ==
    LET ab == (<<"a">> :> VMap((<<"b">> :> VList(<<VInt(1), VInt(2), VInt(3)>>))))
    IN  {ab, ab @@ (<<"n">> :> VInt(5)), ab @@ (<<"n">> :> Nil)}

\* the paths resolved: keys present and missing, indexes inside and outside
\* the list, on a list, on a number and on a mapping
PathSegments ==
    {<<Key(<<"a">>), At(<<"b">>, n)>> : n \in -1..5}
        \cup {<<Key(<<"a">>), Key(<<"c">>)>>, <<Key(<<"a">>), Key(<<"b">>)>>,
              <<Key(<<"a">>), Key(<<"b">>), Key(<<"c">>)>>,
              <<Key(<<"a">>), At(<<"b">>, 1), Key(<<"c">>)>>,
              <<Key(<<"n">>)>>, <<At(<<"n">>, 0)>>, <<At(<<"a">>, 0)>>,
              <<At(<<"x">>, 0)>>, <<Key(<<"n">>), Key(<<"x">>)>>,
              <<At(<<"n">>, 0), Key(<<"x">>)>>, <<Key(<<"x">>), At(<<"b">>, 1)>>}

\* the values compared by valuesEqual: Int64, UInt64 up to the first one
\* that no int64 holds, integral Float64 (0.0, -0.0, 1.0, 2.0) and String
EqualsValues ==
    {VInt(0), VInt(1), VInt(2), VInt(-1), VInt(MaxInt64), VInt(-MaxInt64 - 1),
     VUInt(0), VUInt(1), VUInt(2), VUInt(MaxInt64), VUInt(MaxInt64 + 1),
     VFloat(0), NegZero, VFloat(10), VFloat(20),
     VStr(<<"0">>), VStr(<<"1">>), VStr(<<"2">>), VStr(<<"-", "1">>),
     VStr(<<"1", "x">>), VStr(<<"x">>), VStr(<<>>),
     VStr(IntToStr(MaxInt64)), VStr(IntToStr(MaxInt64 + 1))}

\* the calls: the function and its arguments
Calls(store) ==
    {[fn |-> "replaceMapVariables", m |-> m, order |-> o] :
         m \in RequestBodies, o \in Orders(DOMAIN store.kv)}
        \cup {[fn |-> "replaceVariables", s |-> f, order |-> o] :
                  f \in FieldStrings, o \in Orders(DOMAIN store.kv)}
        \cup (IF store.isNil
              THEN {[fn |-> "getValueByPath", segs |-> sg, path |-> PathString(sg),
                     data |-> d] : sg \in PathSegments, d \in PathData}
                       \cup {[fn |-> "valuesEqual", a |-> a, b |-> b] :
                                 a \in EqualsValues, b \in EqualsValues}
              ELSE {})

\* a runner as NewTestRunner leaves it, on which one function is about to be
\* called
InitCall ==
    /\ variables \in Stores
    /\ arg \in Calls(variables)
    /\ out = NoCall
    /\ results = <<>>
    /\ pc = "idle"
    /\ runErr = FALSE
    /\ scn = 0
    /\ tc = NoCase
    /\ result = NoResult
    /\ req = NoRequest
    /\ i = 0
    /\ err = FALSE
    /\ resp = NoResponse
    /\ respData = NilMap
    /\ minted = 0
    /\ nActions = 0
    /\ nCases = 0
    /\ base = 0
    /\ declared = <<>>
    /\ calls = 0
    /\ sleeps = 0
    /\ validations = 0
    /\ vtrace = <<>>
    /\ startVars = NilMap
    /\ teardownErr = FALSE
    /\ ctxDone = FALSE

\* the resolved entries are written into the map that was passed in
ReturnMapInPlace(r) ==
    /\ out' = [fn |-> "replaceMapVariables", val |-> r.kv]
    /\ minted' = r.n
    /\ arg' = [arg EXCEPT !.m = r.kv]

\* replaceMapVariables returned r: the entries of a map made by the call;
\* m and the maps and lists inside it were only read
ReturnMap(r) ==
    /\ out' = [fn |-> "replaceMapVariables", val |-> r.kv]
    /\ minted' = r.n
    /\ arg' = arg

\* r.replaceMapVariables(m)
CallReplaceMapVariables ==
    /\ arg.fn = "replaceMapVariables"
    /\ out = NoCall
    /\ ReturnMap(replaceMapVariables(arg.m, variables, arg.order, minted))
    /\ UNCHANGED <<variables, results, pc, runErr, scn, nActions, nCases,
                   caseVars, bookVars, teardownErr, ctxDone>>

\* r.getValueByPath(path, data): the value returned, or the panic
CallGetValueByPath ==
    /\ arg.fn = "getValueByPath"
    /\ out = NoCall
    /\ out' = [fn |-> "getValueByPath", ret |-> getValueByPath(arg.path, arg.data)]
    /\ UNCHANGED <<runnerVars, caseVars, bookVars, teardownErr, ctxDone, arg>>

\* valuesEqual(a, b)
CallValuesEqual ==
    /\ arg.fn = "valuesEqual"
    /\ out = NoCall
    /\ out' = [fn |-> "valuesEqual", ret |-> valuesEqual(arg.a, arg.b)]
    /\ UNCHANGED <<runnerVars, caseVars, bookVars, teardownErr, ctxDone, arg>>

\* r.replaceVariables(s)
ReturnString(r) ==
    /\ out' = [fn |-> "replaceVariables", ret |-> r.s]
    /\ minted' = r.n

CallReplaceVariables ==
    /\ arg.fn = "replaceVariables"
    /\ out = NoCall
    /\ ReturnString(replaceVariables(arg.s, variables, arg.order, minted))
    /\ UNCHANGED <<variables, results, pc, runErr, scn, nActions, nCases,
                   caseVars, bookVars, teardownErr, ctxDone, arg>>

NextCall ==
    \/ CallReplaceVariables
    \/ CallReplaceMapVariables
    \/ CallGetValueByPath
    \/ CallValuesEqual

SpecCalls == InitCall /\ [][NextCall]_vars

(***************************************************************************)
(* The properties                                                          *)
(***************************************************************************)
\* C1: a case that depends on X, started when no result named X is Passed,
\* ends Failed with the dependency error and without a transport call; a
\* case that depends on X is in the attempt loop or beyond only when a
\* result named X is Passed.
C1_DependencyGate ==
    LET X == tc.DependsOn
        passed == \E j \in 1..Len(results) : results[j].Name = X /\ results[j].Passed
    IN  X # "" =>
            /\ (pc = "return" /\ ~passed) =>
                   /\ ~result.Passed
                   /\ result.Error = "dependency not passed"
                   /\ calls = 0
            /\ (pc \in {"attempt", "read", "validate", "save", "panicked"}
                \/ calls > 0) => passed

\* C1 happens: a case whose dependency ran and Failed has been gated
C1_Witness ==
    /\ pc = "return"
    /\ tc.DependsOn = "A"
    /\ result.Error = "dependency not passed"
    /\ \E j \in 1..Len(results) : results[j].Name = "A" /\ ~results[j].Passed

\* C2, as amended: at every moment the results this Run has recorded are
\* those of the cases it has finished, one each and in the order the cases
\* are declared; when Run returns without an error there is one for every
\* configured case; and a step only ever appends one result to the list.
C2_OneResultPerCase ==
    /\ [](/\ Len(results) - base \in {Len(declared), Len(declared) - 1}
          /\ \A j \in 1..(Len(results) - base) :
                 /\ results[base + j].Scenario = declared[j].Scenario
                 /\ results[base + j].Name = declared[j].Name
          /\ (pc = "done" /\ ~runErr) => Len(results) = base + nCases)
    /\ [][\/ results' = results
          \/ /\ Len(results') = Len(results) + 1
             /\ SubSeq(results', 1, Len(results)) = results]_vars

\* C2 happens: Run has returned nil with a Passed and a Failed case recorded
C2_Witness ==
    /\ pc = "done"
    /\ ~runErr
    /\ Len(results) = base + 2
    /\ results[base + 1].Passed
    /\ ~results[base + 2].Passed

\* C2, as stated: after Run returns the result list has as many entries as
\* there are configured cases, the j-th with the scenario and name of the
\* j-th case.
C2_AsStated ==
    pc = "done" =>
        /\ Len(results) = base + nCases
        /\ \A j \in 1..nCases :
               /\ results[base + j].Scenario = declared[j].Scenario
               /\ results[base + j].Name = declared[j].Name

\* C3: once a case has been recorded as Failed the run still goes on to
\* its end: it is never cut short, and when Run has returned it has
\* returned no error and every configured case is recorded.
C3_FailureNeverStopsRun ==
    (\E j \in (base + 1)..Len(results) : ~results[j].Passed) =>
        /\ pc # "panicked"
        /\ pc = "done" => (~runErr /\ Len(results) = base + nCases)

\* C4: a case that is past its dependency check and has built its request
\* has an attempt count of at least 1 and, when it ends, has made at least
\* one transport call; with no retry policy it has made exactly one and
\* has not slept.
C4_AtLeastOneCall ==
    LET N == IF tc.Retry.present THEN tc.Retry.Times ELSE 1
        ended == \/ pc \in {"read", "validate", "save", "panicked"}
                 \/ /\ pc = "return"
                    /\ result.Error \notin {"dependency not passed",
                                            "build request failed"}
    IN  /\ pc \in {"attempt", "read", "validate", "save", "panicked"} => N >= 1
        /\ ended => calls >= 1
        /\ (ended /\ ~tc.Retry.present) => (calls = 1 /\ sleeps = 0)

\* C5: a case with N attempts never makes more than N transport calls; it
\* has the transport error only when N calls were made, each returned an
\* error, and N - 1 sleeps were made; and whenever the calls of a case are
\* over, one sleep was made between one call and the next.
C5_AtMostNCalls ==
    LET N == IF tc.Retry.present THEN tc.Retry.Times ELSE 1
    IN  /\ calls <= N
        /\ result.Error = "request failed" =>
               /\ calls = N
               /\ i = N
               /\ sleeps = N - 1
               /\ ~resp.present
               /\ ~result.Passed
        /\ (calls >= 1 /\ (pc # "attempt" \/ i >= N)) => sleeps = calls - 1
        /\ (pc = "attempt" /\ i < N) => sleeps = calls

\* C5 happens: a case with 2 attempts has failed after 2 transport errors
C5_Witness ==
    /\ pc = "return"
    /\ tc.Retry.present
    /\ tc.Retry.Times = 2
    /\ result.Error = "request failed"
    /\ calls = 2
    /\ sleeps = 1

\* C6: when call k of a case returns a response after k - 1 transport
\* errors, k calls were made, the failed attempts left nothing in the
\* result list, the case goes on to have its one Result appended, and that
\* Result is Passed exactly when the validation of this response found no
\* error.
C6_OneResultAfterRetries ==
    resp.present =>
        /\ calls = i + 1
        /\ Len(results) = base + Len(declared) - 1
        /\ pc # "panicked"
        /\ pc = "return" => (result.Passed <=> (validations = 1 /\ result.Error = ""))

\* C7, as amended: once a call of a case has returned a response no other
\* call is made for the case; the validation runs at most once for a case,
\* not at all when the body could not be read or decoded, and once for
\* every other case that got a response; and a case that fails after a
\* response has made the one call that returned it after the errors.
C7_NoRetryAfterResponse ==
    /\ [](/\ validations <= 1
          /\ validations = 1 => resp.present
          /\ (resp.present /\ pc \in {"return", "save", "panicked"}) =>
                 /\ calls = i + 1
                 /\ validations =
                        IF result.Error \in {"read response failed",
                                             "parse response failed"}
                        THEN 0 ELSE 1)
    /\ [][(resp.present /\ resp'.present) => calls' = calls]_vars

\* C7 happens: a case with attempts left got a response that is not JSON
\* and ended after its one call
C7_Witness ==
    /\ pc = "return"
    /\ resp.present
    /\ result.Error = "parse response failed"
    /\ tc.Retry.present
    /\ tc.Retry.Times = 2
    /\ calls = 1
    /\ validations = 0

\* C7, as stated: the validation has run exactly once for every case that
\* got a response, when the case ends.
C7_AsStated ==
    (pc = "return" /\ resp.present) => validations = 1

\* C8: when the validation has run with a nonzero expected status code
\* that is not the response's, the case has failed with the status code
\* error and no field and no assertion was checked; with the expected
\* status code 0 the case never has that error.
C8_StatusShortCircuit ==
    validations = 1 =>
        /\ (tc.Expect.StatusCode # 0 /\ tc.Expect.StatusCode # resp.StatusCode) =>
               /\ pc = "return"
               /\ ~result.Passed
               /\ result.Error = "status code mismatch"
               /\ vtrace = <<>>
        /\ (tc.Expect.StatusCode = 0 \/ tc.Expect.StatusCode = resp.StatusCode) =>
               result.Error # "status code mismatch"

\* C8 happens: a case that expects 200, a field and an assertion got 404
C8_Witness ==
    /\ pc = "return"
    /\ validations = 1
    /\ tc.Expect.StatusCode = 200
    /\ resp.StatusCode = 404
    /\ ~tc.Expect.ResponseBody.isNil
    /\ tc.Expect.Assertions # <<>>
    /\ result.Error = "status code mismatch"

\* C9: r.variables changes only in the step that runs saveVariables, which
\* a case reaches with its validation passed; and a case that ends Failed
\* has r.variables as it was when the case started.
C9_StoreChangesOnlyInCapture ==
    /\ []((pc = "return" /\ ~result.Passed) => variables = startVars)
    /\ []((pc \in {"attempt", "read", "validate", "save"}) => variables = startVars)
    /\ [][variables' # variables =>
              /\ pc = "save"
              /\ validations = 1
              /\ result.Error = ""
              /\ ~tc.Save.isNil
              /\ pc' = "return"
              /\ result'.Passed]_vars

\* C9 happens: a case has passed and its capture has changed r.variables
C9_Witness ==
    /\ pc = "return"
    /\ result.Passed
    /\ variables # startVars

\* C10: the capture step of a case with a save map, which the case
\* reaches with its validation passed, leaves every name of the map bound
\* in r.variables to the value at its path in the decoded response, and
\* the case Passed and about to be recorded.
C10_CaptureBinds ==
    [][(pc = "save" /\ ~tc.Save.isNil) =>
           /\ pc' = "return"
           /\ result'.Passed
           /\ ~variables'.isNil
           /\ \A name \in DOMAIN tc.Save.kv :
                  /\ name \in DOMAIN variables'.kv
                  /\ variables'.kv[name] =
                         getValueByPath(tc.Save.kv[name], respData.kv).val]_vars

\* C11: once a setup action has failed Run has returned its error with no
\* case started, no transport call made, nothing added to the results and
\* no teardown run; the error comes from the setup only; and nothing at
\* all is done after it (no further setup action, no case, no teardown).
C11_SetupFailureStopsRun ==
    /\ [](runErr =>
              /\ pc = "done"
              /\ Len(results) = base
              /\ declared = <<>>
              /\ calls = 0
              /\ ~teardownErr)
    /\ [][runErr' => pc = "setup"]_vars
    /\ [][~runErr]_vars

\* C11 happens: the setup of a suite that has cases failed
C11_Witness ==
    /\ runErr
    /\ pc = "done"
    /\ nCases >= 1

\* C12: a teardown action that fails leaves Run returning no error, and no
\* step of the teardown changes the result list.
C12_TeardownFailureHarmless ==
    /\ [](teardownErr => (pc = "done" /\ ~runErr /\ Len(results) = base + nCases))
    /\ [][pc = "teardown" => (results' = results /\ runErr' = runErr)]_vars

\* C12 happens: the teardown failed after a Passed and a Failed case
C12_Witness ==
    /\ teardownErr
    /\ pc = "done"
    /\ Len(results) = base + 2
    /\ results[base + 1].Passed
    /\ ~results[base + 2].Passed

\* C13: once the deadline of the ctx handed to Run has passed, no further
\* transport call and no further sleep is made.
C13_DeadlineStopsSending ==
    [][ctxDone => (calls' <= calls /\ sleeps' <= sleeps)]_vars

\* C14: every recorded result, and the result a case is about to record,
\* is Passed exactly when its error message is empty.
C14_ErrorIffFailed ==
    /\ \A j \in 1..Len(results) : results[j].Passed <=> results[j].Error = ""
    /\ pc = "return" => (result.Passed <=> result.Error = "")

\* C14 happens: a Passed result and a Failed one with its message are
\* recorded
C14_Witness ==
    /\ Len(results) = 2
    /\ results[1].Passed
    /\ results[1].Error = ""
    /\ ~results[2].Passed
    /\ results[2].Error = "status code mismatch"

\* C15: in the mapping replaceMapVariables returns, at every depth of
\* nested mappings, a field whose template is exactly the placeholder of a
\* stored variable holds the stored value itself, kind and all.
C15_WholePlaceholderKeepsKind ==
    LET RECURSIVE Kept(_, _)
        Kept(tmpl, res) ==
            /\ DOMAIN res = DOMAIN tmpl
            /\ \A k \in DOMAIN tmpl :
                   /\ \A name \in DOMAIN variables.kv :
                          tmpl[k] = VStr(Placeholder(name)) =>
                              res[k] = variables.kv[name]
                   /\ tmpl[k].k = "map" =>
                          (res[k].k = "map" /\ Kept(tmpl[k].v, res[k].v))
    IN  out.fn = "replaceMapVariables" => Kept(arg.m, out.val)

\* C15 happens: two levels down, "{{t}}" has resolved to the stored bool,
\* and in another call "{{s}}" to the stored string "1"
C15_Witness ==
    /\ out.fn = "replaceMapVariables"
    /\ <<"t">> \in DOMAIN variables.kv
    /\ arg.m = (<<"o">> :> VMap((<<"p">> :> VMap((<<"f">> :> VStr(Placeholder(<<"t">>)))))))
    /\ out.val = (<<"o">> :> VMap((<<"p">> :> VMap((<<"f">> :> VBool(TRUE))))))

\* C16: in the mapping replaceMapVariables returns, at every depth of
\* nested mappings, a field whose template holds the placeholder of a
\* stored variable together with anything else is of kind string.
C16_MixedStaysString ==
    LET RECURSIVE Strings(_, _)
        Strings(tmpl, res) ==
            \A k \in DOMAIN tmpl :
                /\ (/\ tmpl[k].k = "string"
                    /\ \E name \in DOMAIN variables.kv :
                           /\ StrContains(tmpl[k].v, Placeholder(name))
                           /\ tmpl[k].v # Placeholder(name))
                       => res[k].k = "string"
                /\ (tmpl[k].k = "map" /\ res[k].k = "map") =>
                       Strings(tmpl[k].v, res[k].v)
    IN  out.fn = "replaceMapVariables" => Strings(arg.m, out.val)

\* C17: getValueByPath raises no error and returns what resolving the
\* path segment by segment gives: nil as soon as a key is missing, a
\* segment is applied to something that is no mapping, the keyed value of
\* an indexed segment is no list or the index is not one of its positions.
C17_PathResolution ==
    LET RECURSIVE Resolved(_, _)
        Resolved(cur, segs) ==
            IF segs = <<>> THEN cur
            ELSE IF cur.k # "map" THEN Nil
            ELSE IF segs[1].key \notin DOMAIN cur.v THEN Nil
            ELSE IF ~segs[1].indexed
            THEN Resolved(cur.v[segs[1].key], Tail(segs))
            ELSE IF cur.v[segs[1].key].k # "list" THEN Nil
            ELSE IF segs[1].idx \notin 0..(Len(cur.v[segs[1].key].v) - 1) THEN Nil
            ELSE Resolved(cur.v[segs[1].key].v[segs[1].idx + 1], Tail(segs))
    IN  out.fn = "getValueByPath" =>
            /\ out.ret.st = "ret"
            /\ out.ret.val = Resolved(VMap(arg.data), arg.segs)

\* C18: valuesEqual(a, b) is valuesEqual(b, a), and for a and b of the
\* same kind it is the equality of their values.
C18_EqualsSymmetric ==
    out.fn = "valuesEqual" =>
        /\ out.ret = valuesEqual(arg.b, arg.a)
        /\ arg.a.k = arg.b.k => (out.ret <=> (arg.a.v = arg.b.v))

\* C19: within one case the request built for a retry is the request that
\* was sent on the attempt before it, so every attempt of the case sends
\* the method and URL of the first attempt, whatever the request template.
C19_SameRequestOnRetry ==
    [][(pc = "attempt" /\ pc' = "attempt" /\ sleeps' = sleeps + 1)
          => req' = req]_vars

\* C20: the run follows a fixed order.  While setup runs no case has been
\* started; a case is started only when the result of the one before it is
\* recorded, and goes through dependency check and build, send, read and
\* decode, validation, capture and recording in that order; the cases are
\* started and recorded scenario by scenario in the order of the
\* scenarios; teardown begins only when the result of the last case is
\* recorded; setup and teardown are each entered once, their actions taken
\* one after the other.
C20_FixedOrder ==
    /\ [](LET started == Len(declared)
              recorded == Len(results) - base
              ScenarioIndex(name) ==
                  CHOOSE n \in 1..Len(ScenarioNames) : ScenarioNames[n] = name
          IN /\ pc = "setup" => (started = 0 /\ recorded = 0)
             /\ pc \in {"attempt", "read", "validate", "save", "return"}
                    => started = recorded + 1
             /\ pc \in {"loop", "teardown", "done"} => started = recorded
             /\ pc = "teardown" => recorded = nCases
             /\ pc # "idle" =>
                    \A j \in 1..recorded :
                        /\ results[base + j].Scenario = declared[j].Scenario
                        /\ results[base + j].Name = declared[j].Name
             /\ \A j, k \in 1..started :
                    j < k => ScenarioIndex(declared[j].Scenario)
                                 <= ScenarioIndex(declared[k].Scenario))
    /\ [][\/ pc' = pc
          \/ <<pc, pc'>> \in
                 {<<"idle", "setup">>, <<"setup", "loop">>, <<"setup", "done">>,
                  <<"loop", "attempt">>, <<"loop", "return">>,
                  <<"attempt", "read">>, <<"attempt", "return">>,
                  <<"read", "validate">>, <<"read", "return">>,
                  <<"validate", "save">>, <<"validate", "return">>,
                  <<"save", "return">>, <<"return", "loop">>,
                  <<"loop", "teardown">>, <<"teardown", "done">>}
          \/ /\ pc \in {"attempt", "validate", "save"}
             /\ pc' = "panicked"]_vars
    /\ [][declared' # declared =>
              /\ pc = "loop"
              /\ Len(results) = base + Len(declared)
              /\ Len(declared') = Len(declared) + 1
              /\ declared'[Len(declared')].Scenario = ScenarioNames[scn]]_vars
    /\ [][scn' # scn => (pc = "loop" /\ scn' = scn + 1)]_vars
    /\ [][nActions' # nActions =>
              /\ pc \in {"setup", "teardown"}
              /\ nActions' \in {nActions + 1, 0}]_vars

C20_Witness ==
    /\ pc = "done"
    /\ ~runErr
    /\ ~teardownErr
    /\ Len(results) = base + 2
    /\ declared[1].Scenario = "S1"
    /\ declared[2].Scenario = "S2"
    /\ results[base + 1].Name = declared[1].Name
    /\ results[base + 2].Name = declared[2].Name

\* C21: a case whose response was decoded and validated ends Passed exactly
\* when the status code check passes or is skipped, every key of the
\* expected fields is in the response with a matching value, and every
\* assertion passes; and no field is checked after an assertion.
C21_PassedIffChecksPass ==
    (validations = 1 /\ pc \in {"return", "panicked"}) =>
        /\ result.Passed <=>
               /\ ~StatusMismatch(tc.Expect, resp.StatusCode)
               /\ \/ tc.Expect.ResponseBody.isNil
                  \/ \A key \in DOMAIN tc.Expect.ResponseBody.kv :
                         FieldError(tc.Expect.ResponseBody.kv, respData.kv, key) = ""
               /\ \A idx \in 1..Len(tc.Expect.Assertions) :
                      LET a == executeAssertion(
                                   tc.Expect.Assertions[idx], respData.kv, startVars,
                                   CHOOSE o \in Orders(DOMAIN startVars.kv) : TRUE, 0)
                      IN ~a.panic /\ a.err = ""
        /\ \A j, k \in 1..Len(vtrace) :
               (vtrace[j].kind = "field" /\ vtrace[k].kind = "assertion") => j < k

\* C22: in the mapping replaceMapVariables returns, an element of a list
\* whose template is exactly the placeholder of a stored variable is the
\* stored value itself, kind and all, so it is never parsed as a number.
C22_ListElementsKeepKind ==
    out.fn = "replaceMapVariables" =>
        \A k \in DOMAIN arg.m :
            arg.m[k].k = "list" =>
                /\ out.val[k].k = "list"
                /\ Len(out.val[k].v) = Len(arg.m[k].v)
                /\ \A j \in 1..Len(arg.m[k].v) :
                       \A name \in DOMAIN variables.kv :
                           arg.m[k].v[j] = VStr(Placeholder(name)) =>
                               out.val[k].v[j] = variables.kv[name]

\* C23: in the mapping replaceMapVariables returns, at every depth of
\* mappings and lists, a string that was "{{uuid}}" is one of the
\* identifiers generated during the call, whatever the store holds, and a
\* string that was "{{uuid}}{{uuid}}" is two different ones of them.
C23_UuidAlwaysFresh ==
    LET RECURSIVE Fresh(_, _)
        Fresh(tmpl, res) ==
            CASE tmpl.k = "string" ->
                    /\ tmpl.v = UUIDPlaceholder =>
                           \E n \in 0..(minted - 1) : res = VStr(UUID(n))
                    /\ tmpl.v = UUIDPlaceholder \o UUIDPlaceholder =>
                           \E n, m \in 0..(minted - 1) :
                               n # m /\ res = VStr(UUID(n) \o UUID(m))
              [] tmpl.k = "map" ->
                    /\ res.k = "map"
                    /\ \A k \in DOMAIN tmpl.v : Fresh(tmpl.v[k], res.v[k])
              [] tmpl.k = "list" ->
                    /\ res.k = "list"
                    /\ \A j \in 1..Len(tmpl.v) : Fresh(tmpl.v[j], res.v[j])
              [] OTHER -> TRUE
    IN  out.fn = "replaceMapVariables" => Fresh(VMap(arg.m), VMap(out.val))

\* C24: what getValueByPath returns for a key that is missing from the
\* response differs from what it returns for the same response with that
\* key present and null.
C24_AbsentIsNotNull ==
    (/\ out.fn = "getValueByPath"
     /\ Len(arg.segs) = 1
     /\ ~arg.segs[1].indexed
     /\ arg.segs[1].key \notin DOMAIN arg.data)
        => out.ret # getValueByPath(arg.path, arg.data @@ (arg.segs[1].key :> Nil))

\* C25: valuesEqual of an integer value (an int64, a uint64 that an int64
\* holds, an integral float64) and a string holds exactly when the string
\* is the decimal numeral of the integer; an int64 and an integral float64
\* are equal exactly when they are the same integer; and a uint64 that no
\* int64 holds is equal to no int64.
C25_IntegerEqualsNumeral ==
    out.fn = "valuesEqual" =>
        LET a == arg.a
            b == arg.b
            Integral(x) == \/ x.k = "int64"
                           \/ x.k = "uint64" /\ x.v <= MaxInt64
                           \/ x.k = "float64" /\ FloatIsIntegral(x.v)
            IntegerOf(x) == IF x.k = "float64" THEN FloatToInt(x.v) ELSE x.v
        IN  /\ (Integral(a) /\ b.k = "string") =>
                   (out.ret <=> b.v = IntToStr(IntegerOf(a)))
            /\ (a.k = "int64" /\ b.k = "float64") =>
                   (out.ret <=> (FloatIsIntegral(b.v) /\ FloatToInt(b.v) = a.v))
            /\ (a.k = "uint64" /\ a.v > MaxInt64 /\ b.k = "int64") => ~out.ret

C27_ResolutionDeterministic ==
    (out.fn = "replaceVariables" /\ ~StrContains(arg.s, UUIDPlaceholder)) =>
        \A o \in Orders(DOMAIN variables.kv) :
            replaceVariables(arg.s, variables, o, 0).s = out.ret

\* C28: a case that depends on X is gated exactly when the first result
\* named X in the list is not Passed or there is none, whatever the later
\* results of that name say; a gated case makes no transport call.
C28_FirstResultDecides ==
    LET X == tc.DependsOn
        named == {j \in 1..Len(results) : results[j].Name = X}
        proceeds ==
            /\ named # {}
            /\ results[CHOOSE j \in named : \A l \in named : j <= l].Passed
        gated == /\ pc = "return"
                 /\ result.Error = "dependency not passed"
                 /\ ~result.Passed
                 /\ calls = 0
    IN  (X # "" /\ pc \in {"attempt", "read", "validate", "save", "return",
                           "panicked"})
            => (gated <=> ~proceeds)

\* C28 happens: of two earlier results named A the first Failed and the
\* second Passed, and the case depending on A was gated
C28_Witness ==
    /\ pc = "return"
    /\ tc.DependsOn = "A"
    /\ result.Error = "dependency not passed"
    /\ Len(results) = 2
    /\ results[1].Name = "A" /\ ~results[1].Passed
    /\ results[2].Name = "A" /\ results[2].Passed

\* C29: the step in which a teardown action fails ends the teardown and
\* the run, with no error returned and the results as they were; no
\* teardown action, and nothing else, is executed after it.
C29_TeardownStopsAtFirstFailure ==
    /\ [][teardownErr' =>
              /\ pc = "teardown"
              /\ pc' = "done"
              /\ ~runErr'
              /\ results' = results
              /\ nActions' = nActions]_vars
    /\ [][~teardownErr]_vars
    /\ [](teardownErr => (pc = "done" /\ ~runErr /\ nActions < MaxActions))

\* C29 happens: the first teardown action failed, with room for another
\* one in the list, and Run has returned without an error
C29_Witness ==
    /\ teardownErr
    /\ pc = "done"
    /\ ~runErr
    /\ nActions = 0
    /\ nActions + 1 < MaxActions
    /\ Len(results) = base + nCases
    /\ nCases >= 1

=============================================================================
